---- MODULE Spec2Model ----
(***************************************************************************)
(* A model of the diff engine of app.py (the "Ultimate Diff Tool"):        *)
(* preprocess_lines, the opcode list of difflib.SequenceMatcher,           *)
(* generate_ultimate_diff_views, generate_patch_file and the part of the   *)
(* Streamlit script that runs the comparison and keeps its result in the   *)
(* session.                                                                *)
(*                                                                         *)
(* Conventions.  A line is a tuple of one-character strings.  Positions    *)
(* and indices keep Python's zero-based values; a sequence s is read at    *)
(* Python index i as s[i + 1].  Python's None is the empty tuple and a     *)
(* present integer n is <<n>> (so dict.get and the line number of a row    *)
(* are "optional integers").  A row of a view is the record                *)
(* [num, content, cls] for the tuple (line_num, content_html, line_class). *)
(***************************************************************************)
EXTENDS Integers, Sequences, FiniteSets, TLC

\* ------------------------------------------------------------------ bounds
\* Longest input (number of lines of lines_a, of lines_b).
MaxLen == 3
\* Largest value of the "Context Lines" option.
MaxContext == 1

\* --------------------------------------------------------- general helpers
None == <<>>
Some(n) == <<n>>
IsNone(x) == x = <<>>
Val(x) == x[1]
Max(x, y) == IF x >= y THEN x ELSE y

RECURSIVE SeqsUpTo(_, _)
\* All tuples over S of length at most n.
SeqsUpTo(S, n) ==
    IF n = 0 THEN {<<>>}
    ELSE LET shorter == SeqsUpTo(S, n - 1)
         IN shorter \cup {Append(s, x) : s \in {t \in shorter : Len(t) = n - 1}, x \in S}

\* Python s[i:j] for 0 <= i and 0 <= j (a slice clamps at the end of s).
Slice(s, i, j) == SubSeq(s, i + 1, IF j > Len(s) THEN Len(s) ELSE j)

\* ---------------------------------------------------------------- strings
\* The no-break space U+00A0 that line 419 puts in place of blank content.
NBSP == "&nbsp;"
\* The characters str.strip() removes.
IsSpace(c) == c \in {" ", "\t", "\n", NBSP}
LowerChar(c) ==
    IF c = "A" THEN "a" ELSE IF c = "B" THEN "b" ELSE IF c = "F" THEN "f" ELSE c

RECURSIVE LStrip(_)
LStrip(s) == IF s # <<>> /\ IsSpace(Head(s)) THEN LStrip(Tail(s)) ELSE s

RECURSIVE RStrip(_)
RStrip(s) ==
    IF s # <<>> /\ IsSpace(s[Len(s)]) THEN RStrip(SubSeq(s, 1, Len(s) - 1)) ELSE s

\* str.strip()
Strip(s) == RStrip(LStrip(s))
\* str.lower()
Lower(s) == [i \in 1..Len(s) |-> LowerChar(s[i])]
StartsWith(s, p) == Len(s) >= Len(p) /\ SubSeq(s, 1, Len(p)) = p
EndsWith(s, p) == Len(s) >= Len(p) /\ SubSeq(s, Len(s) - Len(p) + 1, Len(s)) = p

\* ------------------------------------------------------- ignore patterns
\* The pattern texts a user types into "Ignore Lines Matching Regex", one per
\* line of the text area.  "^a" is a valid pattern; "[" does not compile
\* (re.error); DeepPattern stands for a pattern of deeply nested groups,
\* "(" * 5000 + ")" * 5000, whose compilation ends in RecursionError, which is
\* not an re.error.
DeepPattern == "(((...)))"
PatternTexts == {"^a", "[", DeepPattern}

\* re.compile(p): "ok", "re.error" or "RecursionError".
CompileOutcome(p) ==
    IF p = "[" THEN "re.error"
    ELSE IF p = DeepPattern THEN "RecursionError"
    ELSE "ok"

\* pattern.search(line) for a compiled pattern.
PatternSearch(p, line) ==
    IF p = "^a" THEN StartsWith(line, <<"a">>) ELSE FALSE

\* The index of the first pattern text whose compilation fails, 0 if none:
\* the list comprehension compiles the texts in order and stops at the first
\* exception.
FirstFailingPattern(texts) ==
    LET bad == {i \in 1..Len(texts) : CompileOutcome(texts[i]) # "ok"}
    IN IF bad = {} THEN 0 ELSE CHOOSE i \in bad : \A j \in bad : i <= j

\* The non-blank pattern texts, stripped: p.strip() for p in splitlines() if p.strip().
PatternLines(ignore_regex) ==
    SelectSeq(ignore_regex, LAMBDA p : p # "")

\* Lines 293-298: patterns = [] ; if options.get('ignore_regex'): try: patterns
\* = [re.compile(...) ...] except re.error: st.warning(...).  The assignment
\* happens only when every text compiles, so one re.error leaves patterns = [].
\* Any other exception leaves the function.
CompilePatterns(ignore_regex) ==
    LET texts == PatternLines(ignore_regex)
        f == FirstFailingPattern(texts)
    IN IF f = 0 THEN [status |-> "ok", patterns |-> texts]
       ELSE IF CompileOutcome(texts[f]) = "re.error"
            THEN [status |-> "warned", patterns |-> <<>>]
            ELSE [status |-> "raised", patterns |-> <<>>]

\* ------------------------------------------------------ comment patterns
\* re.compile(r"^\s*#.*").match(line)
MatchHashComment(line) == StartsWith(LStrip(line), <<"#">>)
\* re.compile(r"^\s*//.*").match(line)
MatchSlashComment(line) == StartsWith(LStrip(line), <<"/", "/">>)
\* re.compile(r"^\s*/\*.*\*/\s*$").match(line)
MatchBlockComment(line) ==
    LET t == Strip(line)
    IN Len(t) >= 4 /\ StartsWith(t, <<"/", "*">>) /\ EndsWith(t, <<"*", "/">>)

IsCommentLine(line) ==
    MatchHashComment(line) \/ MatchSlashComment(line) \/ MatchBlockComment(line)

\* ------------------------------------------------------- preprocess_lines
\* Whether the loop body reaches a `continue` for this line (lines 312-333).
Excluded(line, patterns, options) ==
    \/ \E i \in 1..Len(patterns) : PatternSearch(patterns[i], line)
    \/ options.ignore_comments /\ IsCommentLine(line)
    \/ options.ignore_blank_lines /\ Strip(line) = <<>>

\* Lines 334-338.
Transform(line, options) ==
    LET stripped == IF options.ignore_whitespace THEN Strip(line) ELSE line
    IN IF options.ignore_case THEN Lower(stripped) ELSE stripped

RECURSIVE PreprocessFrom(_, _, _, _)
\* The for loop of lines 310-341 from Python index i on: the pair
\* (processed, original_indices) those iterations append.
PreprocessFrom(lines, i, patterns, options) ==
    IF i >= Len(lines) THEN [processed |-> <<>>, original_indices |-> <<>>]
    ELSE LET rest == PreprocessFrom(lines, i + 1, patterns, options)
             line == lines[i + 1]
         IN IF Excluded(line, patterns, options) THEN rest
            ELSE [processed |-> <<Transform(line, options)>> \o rest.processed,
                  original_indices |-> <<i>> \o rest.original_indices]

\* preprocess_lines(lines, options): status is "raised" when the function is
\* left by an exception, else "ok" or "warned" (st.warning was called).
preprocess_lines(lines, options) ==
    LET c == CompilePatterns(options.ignore_regex)
        r == PreprocessFrom(lines, 0, c.patterns, options)
    IN [status |-> c.status,
        processed |-> IF c.status = "raised" THEN <<>> ELSE r.processed,
        original_indices |-> IF c.status = "raised" THEN <<>> ELSE r.original_indices]

\* --------------------------------------- difflib.SequenceMatcher (library)
\* SequenceMatcher(None, a, b, autojunk=False): no element is junk, so the two
\* junk-extension loops of find_longest_match never run, and the first two
\* extension loops find nothing to add to a block the scan already made
\* maximal.

\* newj2len of find_longest_match for row i: for each j of [blo, bhi) with
\* b[j] = a[i], j2len.get(j - 1, 0) + 1; an absent key is 0.
NextJ2Len(a, b, i, blo, bhi, j2len) ==
    [j \in blo..(bhi - 1) |->
        IF b[j + 1] = a[i + 1]
        THEN (IF j - 1 >= blo THEN j2len[j - 1] ELSE 0) + 1
        ELSE 0]

\* (besti, bestj, bestsize) after the inner loop of row i: j ascends and the
\* best is replaced only when k > bestsize, so the row's first largest k wins.
BestAfterRow(best, i, blo, bhi, row) ==
    LET top == IF blo >= bhi THEN 0
               ELSE CHOOSE k \in {row[j] : j \in blo..(bhi - 1)} :
                        \A j \in blo..(bhi - 1) : row[j] <= k
    IN IF top <= best[3] THEN best
       ELSE LET js == {j \in blo..(bhi - 1) : row[j] = top}
                j == CHOOSE x \in js : \A y \in js : x <= y
            IN <<i - top + 1, j - top + 1, top>>

RECURSIVE LongestFrom(_, _, _, _, _, _, _, _)
LongestFrom(a, b, i, ahi, blo, bhi, j2len, best) ==
    IF i >= ahi THEN best
    ELSE LET row == NextJ2Len(a, b, i, blo, bhi, j2len)
         IN LongestFrom(a, b, i + 1, ahi, blo, bhi, row,
                        BestAfterRow(best, i, blo, bhi, row))

\* find_longest_match(alo, ahi, blo, bhi) = <<i, j, k>>.
find_longest_match(a, b, alo, ahi, blo, bhi) ==
    LongestFrom(a, b, alo, ahi, blo, bhi,
                [j \in blo..(bhi - 1) |-> 0], <<alo, blo, 0>>)

RECURSIVE BlocksIn(_, _, _, _, _, _)
\* The blocks get_matching_blocks collects for the queue entry
\* (alo, ahi, blo, bhi) and the entries it spawns, in sorted order.
BlocksIn(a, b, alo, ahi, blo, bhi) ==
    LET m == find_longest_match(a, b, alo, ahi, blo, bhi)
        i == m[1]
        j == m[2]
        k == m[3]
    IN IF k = 0 THEN <<>>
       ELSE (IF alo < i /\ blo < j THEN BlocksIn(a, b, alo, i, blo, j) ELSE <<>>)
            \o <<m>>
            \o (IF i + k < ahi /\ j + k < bhi
                THEN BlocksIn(a, b, i + k, ahi, j + k, bhi) ELSE <<>>)

RECURSIVE MergeAdjacent(_, _)
\* The second loop of get_matching_blocks: adjacent blocks are merged; cur is
\* (i1, j1, k1).
MergeAdjacent(blocks, cur) ==
    IF blocks = <<>> THEN (IF cur[3] # 0 THEN <<cur>> ELSE <<>>)
    ELSE LET nb == Head(blocks)
         IN IF cur[1] + cur[3] = nb[1] /\ cur[2] + cur[3] = nb[2]
            THEN MergeAdjacent(Tail(blocks), <<cur[1], cur[2], cur[3] + nb[3]>>)
            ELSE (IF cur[3] # 0 THEN <<cur>> ELSE <<>>)
                 \o MergeAdjacent(Tail(blocks), nb)

get_matching_blocks(a, b) ==
    MergeAdjacent(BlocksIn(a, b, 0, Len(a), 0, Len(b)), <<0, 0, 0>>)
        \o << <<Len(a), Len(b), 0>> >>

Opcode(tag, i1, i2, j1, j2) == [tag |-> tag, i1 |-> i1, i2 |-> i2, j1 |-> j1, j2 |-> j2]

RECURSIVE OpcodesFrom(_, _, _)
OpcodesFrom(blocks, i, j) ==
    IF blocks = <<>> THEN <<>>
    ELSE LET ai == Head(blocks)[1]
             bj == Head(blocks)[2]
             size == Head(blocks)[3]
             tag == IF i < ai /\ j < bj THEN "replace"
                    ELSE IF i < ai THEN "delete"
                    ELSE IF j < bj THEN "insert"
                    ELSE ""
         IN (IF tag # "" THEN <<Opcode(tag, i, ai, j, bj)>> ELSE <<>>)
            \o (IF size # 0 THEN <<Opcode("equal", ai, ai + size, bj, bj + size)>> ELSE <<>>)
            \o OpcodesFrom(Tail(blocks), ai + size, bj + size)

\* SequenceMatcher(None, a, b, autojunk=False).get_opcodes()
get_opcodes(a, b) == OpcodesFrom(get_matching_blocks(a, b), 0, 0)

\* ------------------------------------------------------ highlight_syntax
\* html.escape of one character (Pygments escapes the same way).
EscapeChar(c) ==
    IF c = "<" THEN "&lt;"
    ELSE IF c = ">" THEN "&gt;"
    ELSE IF c = "&" THEN "&amp;"
    ELSE c

\* highlight_syntax(code, lexer) for the plain-text lexer, the one get_lexer
\* falls back to and the one pasted text gets: the escaped text followed by
\* the newline Pygments ends every input with; no token of plain text gets a
\* <span>.
highlight_syntax(code) == [i \in 1..Len(code) |-> EscapeChar(code[i])] \o <<"\n">>

\* ------------------------------------------------------------ view rows
Row(num, content, cls) == [num |-> num, content |-> content, cls |-> cls]

\* Lines 418-419.
format_html_line_tuple(line_num, content_html, line_class) ==
    Row(line_num, IF Strip(content_html) # <<>> THEN content_html ELSE <<NBSP>>, line_class)

\* Line 421.
placeholder_content == <<>>
\* Line 422.
separator_tuple ==
    Row(None, <<"<div class=\"diff-sep\">... unchanged lines hidden ...</div>">>, "diff-sep")
PlaceholderRow == format_html_line_tuple(None, placeholder_content, "diff-placeholder")
\* Line 604.
IdenticalRow ==
    format_html_line_tuple(None,
        <<"<i style='color: var(--line-num-color);'>Files are identical with current options.</i>">>,
        "diff-equal")

\* 'placeholder' in line[2] and 'sep' in line[2], for the classes in use.
HasPlaceholder(cls) == cls = "diff-placeholder"
HasSep(cls) == cls = "diff-sep"

ZeroStats == [added |-> 0, deleted |-> 0, modified |-> 0, unchanged |-> 0]

RECURSIVE Flatten(_)
Flatten(ss) == IF ss = <<>> THEN <<>> ELSE Head(ss) \o Flatten(Tail(ss))

\* [f(lo), ..., f(hi - 1)] for range(lo, hi), as the tuple of the integers.
Range(lo, hi) == [k \in 1..(IF hi > lo THEN hi - lo ELSE 0) |-> lo + k - 1]

\* ------------------------------------------- generate_ultimate_diff_views
\* map_proc_to_orig.get(p): the dict built from enumerate(orig_indices).
MapGet(orig_indices, p) ==
    IF p >= 0 /\ p < Len(orig_indices) THEN Some(orig_indices[p + 1]) ELSE None

\* OpContext with the blocks sliced up to the last original index instead of
\* one past it (the "+ 1" of lines 429 and 433 left out of the slice end).
OpContextShortBlock(op, lines_a, lines_b, orig_indices_a, orig_indices_b) ==
    LET i1_orig == MapGet(orig_indices_a, op.i1)
        i2_orig_prev == MapGet(orig_indices_a, op.i2 - 1)
        i2_orig == IF ~IsNone(i2_orig_prev) THEN Some(Val(i2_orig_prev) + 1) ELSE i1_orig
        j1_orig == MapGet(orig_indices_b, op.j1)
        j2_orig_prev == MapGet(orig_indices_b, op.j2 - 1)
        j2_orig == IF ~IsNone(j2_orig_prev) THEN Some(Val(j2_orig_prev) + 1) ELSE j1_orig
    IN [i1_orig |-> i1_orig, i2_orig |-> i2_orig,
        j1_orig |-> j1_orig, j2_orig |-> j2_orig,
        lines_in_block_a_orig |->
            IF ~IsNone(i1_orig) /\ ~IsNone(i2_orig)
            THEN Slice(lines_a, Val(i1_orig), Val(i2_orig) - 1) ELSE <<>>,
        lines_in_block_b_orig |->
            IF ~IsNone(j1_orig) /\ ~IsNone(j2_orig)
            THEN Slice(lines_b, Val(j1_orig), Val(j2_orig) - 1) ELSE <<>>,
        num_lines_proc |-> op.i2 - op.i1]

\* Lines 427-438 for one opcode: the original indices and the blocks of
\* original lines.
OpContext(op, lines_a, lines_b, orig_indices_a, orig_indices_b) ==
    LET i1_orig == MapGet(orig_indices_a, op.i1)
        i2_orig_prev == MapGet(orig_indices_a, op.i2 - 1)
        i2_orig == IF ~IsNone(i2_orig_prev) THEN Some(Val(i2_orig_prev) + 1) ELSE i1_orig
        j1_orig == MapGet(orig_indices_b, op.j1)
        j2_orig_prev == MapGet(orig_indices_b, op.j2 - 1)
        j2_orig == IF ~IsNone(j2_orig_prev) THEN Some(Val(j2_orig_prev) + 1) ELSE j1_orig
    IN [i1_orig |-> i1_orig, i2_orig |-> i2_orig,
        j1_orig |-> j1_orig, j2_orig |-> j2_orig,
        lines_in_block_a_orig |->
            IF ~IsNone(i1_orig) /\ ~IsNone(i2_orig)
            THEN Slice(lines_a, Val(i1_orig), Val(i2_orig)) ELSE <<>>,
        lines_in_block_b_orig |->
            IF ~IsNone(j1_orig) /\ ~IsNone(j2_orig)
            THEN Slice(lines_b, Val(j1_orig), Val(j2_orig)) ELSE <<>>,
        num_lines_proc |-> op.i2 - op.i1]

\* What one stretch of the loop body appends: rows of view A, of view B, of
\* the diff view, minimap marks; raised when a statement of it raises
\* (None + int is a TypeError, a list index past the end an IndexError).
Emitted(a, b, d, m) == [a |-> a, b |-> b, d |-> d, m |-> m, raised |-> FALSE]
NothingEmitted == Emitted(<<>>, <<>>, <<>>, <<>>)
Raising == [a |-> <<>>, b |-> <<>>, d |-> <<>>, m |-> <<>>, raised |-> TRUE]
Then(e, f) ==
    IF e.raised \/ f.raised THEN Raising
    ELSE Emitted(e.a \o f.a, e.b \o f.b, e.d \o f.d, e.m \o f.m)

\* Whether line_num = orig + k + 1 and block[k] can be evaluated.
CanIndex(orig, block, k) == ~IsNone(orig) /\ k >= 0 /\ k < Len(block)

\* SideRow with the offset k left out of the block index: every row of a
\* block gets the content of the block's first line.
SideRowFirstContent(orig, block, k, cls) ==
    format_html_line_tuple(Some(Val(orig) + k + 1), highlight_syntax(block[1]), cls)

\* SideRow with the offset k left out of the line number: every row of a
\* block gets the number of the block's first line.
SideRowFirstNumber(orig, block, k, cls) ==
    format_html_line_tuple(Some(Val(orig) + 1), highlight_syntax(block[k + 1]), cls)

\* The row of one side for offset k of a block: line number orig + k + 1,
\* content block[k].
SideRow(orig, block, k, cls) ==
    format_html_line_tuple(Some(Val(orig) + k + 1), highlight_syntax(block[k + 1]), cls)

\* The rows for the offsets ks of an equal block, on both sides, with a
\* placeholder in the diff view and an "equal" mark each (lines 444-454,
\* 459-471, 473-483, 524-534).
EqualRows(c, ks, cls) ==
    IF \E n \in 1..Len(ks) :
          \/ ~CanIndex(c.i1_orig, c.lines_in_block_a_orig, ks[n])
          \/ ~CanIndex(c.j1_orig, c.lines_in_block_b_orig, ks[n])
    THEN Raising
    ELSE Emitted([n \in 1..Len(ks) |-> SideRow(c.i1_orig, c.lines_in_block_a_orig, ks[n], cls)],
                 [n \in 1..Len(ks) |-> SideRow(c.j1_orig, c.lines_in_block_b_orig, ks[n], cls)],
                 [n \in 1..Len(ks) |-> PlaceholderRow],
                 [n \in 1..Len(ks) |-> "equal"])

\* SeparatorRows with a minimap mark appended for the separator.
SeparatorRowsMarked ==
    Emitted(<<separator_tuple>>, <<separator_tuple>>, <<separator_tuple>>, <<"equal">>)

SeparatorRows == Emitted(<<separator_tuple>>, <<separator_tuple>>, <<separator_tuple>>, <<>>)

\* CollapsedEqual without the trailing context: the leading context rows and
\* the separator only.
CollapsedEqualHeadOnly(c, options) ==
    Then(EqualRows(c, Range(0, options.num_context), "diff-context"), SeparatorRows)

\* Lines 442-471: a long equal run with hide_unchanged on.  No statement of
\* this branch adds to diff_stats.
CollapsedEqual(c, options) ==
    Then(EqualRows(c, Range(0, options.num_context), "diff-context"),
         Then(SeparatorRows,
              EqualRows(c, Range(c.num_lines_proc - options.num_context, c.num_lines_proc),
                        "diff-context")))

\* Lines 473-483 and 523-534: every line of the equal run.
WholeEqual(c, op) == EqualRows(c, Range(0, op.i2 - op.i1), "diff-equal")

\* Lines 489-519: context from a preceding equal block, for a difference
\* that starts after last_proc_a_idx.
Backfill(op, view_a_lines, last_proc_a_idx, lines_a, lines_b, orig_indices_a, orig_indices_b, options) ==
    IF ~(options.hide_unchanged /\ op.tag # "equal" /\ op.i1 > last_proc_a_idx)
    THEN NothingEmitted
    ELSE IF ~(op.i1 - last_proc_a_idx > options.num_context) THEN NothingEmitted
    ELSE
      LET context_start_proc_a == op.i1 - options.num_context
          context_start_proc_b == op.j1 - options.num_context
          shown == {k \in 0..(options.num_context - 1) :
                      /\ ~IsNone(MapGet(orig_indices_a, context_start_proc_a + k))
                      /\ ~IsNone(MapGet(orig_indices_b, context_start_proc_b + k))}
          ks == SelectSeq(Range(0, options.num_context), LAMBDA k : k \in shown)
          OrigA(k) == Val(MapGet(orig_indices_a, context_start_proc_a + k))
          OrigB(k) == Val(MapGet(orig_indices_b, context_start_proc_b + k))
      IN IF IsNone(MapGet(orig_indices_a, context_start_proc_a))
            \/ IsNone(MapGet(orig_indices_b, context_start_proc_b))
         THEN NothingEmitted
         ELSE Then(IF view_a_lines = <<>> \/ view_a_lines[Len(view_a_lines)].cls # "diff-sep"
                   THEN SeparatorRows ELSE NothingEmitted,
                   Emitted([n \in 1..Len(ks) |->
                               format_html_line_tuple(Some(OrigA(ks[n]) + 1),
                                   highlight_syntax(lines_a[OrigA(ks[n]) + 1]), "diff-context")],
                           [n \in 1..Len(ks) |->
                               format_html_line_tuple(Some(OrigB(ks[n]) + 1),
                                   highlight_syntax(lines_b[OrigB(ks[n]) + 1]), "diff-context")],
                           [n \in 1..Len(ks) |-> PlaceholderRow],
                           [n \in 1..Len(ks) |-> "equal"]))

\* Lines 537-546.
DeleteRows(c, op) ==
    LET ks == Range(0, op.i2 - op.i1)
        rows == [n \in 1..Len(ks) |->
                    SideRow(c.i1_orig, c.lines_in_block_a_orig, ks[n], "diff-sub")]
    IN IF \E n \in 1..Len(ks) : ~CanIndex(c.i1_orig, c.lines_in_block_a_orig, ks[n])
       THEN Raising
       ELSE Emitted(rows, [n \in 1..Len(ks) |-> PlaceholderRow], rows,
                    [n \in 1..Len(ks) |-> "sub"])

\* Lines 549-558.
InsertRows(c, op) ==
    LET ks == Range(0, op.j2 - op.j1)
        rows == [n \in 1..Len(ks) |->
                    SideRow(c.j1_orig, c.lines_in_block_b_orig, ks[n], "diff-add")]
    IN IF \E n \in 1..Len(ks) : ~CanIndex(c.j1_orig, c.lines_in_block_b_orig, ks[n])
       THEN Raising
       ELSE Emitted([n \in 1..Len(ks) |-> PlaceholderRow], rows, rows,
                    [n \in 1..Len(ks) |-> "add"])

\* ReplaceRowsAt with both sides' rows put into the diff view for every k.
ReplaceRowsAtBothInDiff(c, op, k) ==
    LET n_lines_a == op.i2 - op.i1
        n_lines_b == op.j2 - op.j1
        line_num_a == IF k < n_lines_a /\ ~IsNone(c.i1_orig)
                      THEN Some(Val(c.i1_orig) + k + 1) ELSE None
        line_num_b == IF k < n_lines_b /\ ~IsNone(c.j1_orig)
                      THEN Some(Val(c.j1_orig) + k + 1) ELSE None
        line_a_orig_k == IF k < n_lines_a THEN c.lines_in_block_a_orig[k + 1] ELSE <<>>
        line_b_orig_k == IF k < n_lines_b THEN c.lines_in_block_b_orig[k + 1] ELSE <<>>
        tuple_a == format_html_line_tuple(line_num_a, highlight_syntax(line_a_orig_k), "diff-sub")
        tuple_b == format_html_line_tuple(line_num_b, highlight_syntax(line_b_orig_k), "diff-add")
    IN Emitted(IF k < n_lines_a THEN <<tuple_a>> ELSE <<PlaceholderRow>>,
               IF k < n_lines_b THEN <<tuple_b>> ELSE <<PlaceholderRow>>,
               (IF k < n_lines_a THEN <<tuple_a>> ELSE <<>>)
                   \o (IF k < n_lines_b THEN <<tuple_b>> ELSE <<>>),
               <<"mod">>)

\* Lines 566-596 for one k of a replace block.
ReplaceRowsAt(c, op, k) ==
    LET n_lines_a == op.i2 - op.i1
        n_lines_b == op.j2 - op.j1
        line_num_a == IF k < n_lines_a /\ ~IsNone(c.i1_orig)
                      THEN Some(Val(c.i1_orig) + k + 1) ELSE None
        line_num_b == IF k < n_lines_b /\ ~IsNone(c.j1_orig)
                      THEN Some(Val(c.j1_orig) + k + 1) ELSE None
        line_a_orig_k == IF k < n_lines_a THEN c.lines_in_block_a_orig[k + 1] ELSE <<>>
        line_b_orig_k == IF k < n_lines_b THEN c.lines_in_block_b_orig[k + 1] ELSE <<>>
        tuple_a == format_html_line_tuple(line_num_a, highlight_syntax(line_a_orig_k), "diff-sub")
        tuple_b == format_html_line_tuple(line_num_b, highlight_syntax(line_b_orig_k), "diff-add")
    IN Emitted(IF k < n_lines_a THEN <<tuple_a>> ELSE <<PlaceholderRow>>,
               IF k < n_lines_b THEN <<tuple_b>> ELSE <<PlaceholderRow>>,
               (IF k < n_lines_a THEN <<tuple_a>> ELSE <<>>)
                   \o (IF k < n_lines_b
                       THEN (IF k >= n_lines_a THEN <<tuple_b>> ELSE <<>>)
                       ELSE (IF k >= n_lines_a THEN <<PlaceholderRow>> ELSE <<>>)),
               <<"mod">>)

\* Lines 561-596.
ReplaceRows(c, op) ==
    LET n_lines_a == op.i2 - op.i1
        n_lines_b == op.j2 - op.j1
        ks == Range(0, Max(n_lines_a, n_lines_b))
        per == [n \in 1..Len(ks) |-> ReplaceRowsAt(c, op, ks[n])]
    IN IF \/ n_lines_a > Len(c.lines_in_block_a_orig)
          \/ n_lines_b > Len(c.lines_in_block_b_orig)
       THEN Raising
       ELSE Emitted(Flatten([n \in 1..Len(ks) |-> per[n].a]),
                    Flatten([n \in 1..Len(ks) |-> per[n].b]),
                    Flatten([n \in 1..Len(ks) |-> per[n].d]),
                    Flatten([n \in 1..Len(ks) |-> per[n].m]))

\* Which branch of the loop body an opcode takes.
Branch(op, options) ==
    IF options.hide_unchanged /\ op.tag = "equal"
    THEN (IF op.i2 - op.i1 > options.num_context * 2 THEN "collapsed" ELSE "short")
    ELSE op.tag

\* What one iteration adds to diff_stats (lines 484, 535, 547, 559, 564).
StatsDelta(op, options) ==
    LET br == Branch(op, options)
    IN [added |-> IF br = "insert" THEN op.j2 - op.j1 ELSE 0,
        deleted |-> IF br = "delete" THEN op.i2 - op.i1 ELSE 0,
        modified |-> IF br = "replace" THEN Max(op.i2 - op.i1, op.j2 - op.j1) ELSE 0,
        unchanged |-> IF br \in {"short", "equal"} THEN op.i2 - op.i1 ELSE 0]

AddStats(s, d) ==
    [added |-> s.added + d.added, deleted |-> s.deleted + d.deleted,
     modified |-> s.modified + d.modified, unchanged |-> s.unchanged + d.unchanged]

\* The rows and marks one iteration of the loop (lines 425-599) appends.
OpcodeRows(op, view_a_lines, last_proc_a_idx, lines_a, lines_b, orig_indices_a, orig_indices_b, options) ==
    LET c == OpContext(op, lines_a, lines_b, orig_indices_a, orig_indices_b)
        br == Branch(op, options)
    IN IF br = "collapsed" THEN CollapsedEqual(c, options)
       ELSE IF br = "short" THEN WholeEqual(c, op)
       ELSE Then(Backfill(op, view_a_lines, last_proc_a_idx, lines_a, lines_b,
                          orig_indices_a, orig_indices_b, options),
                 IF br = "equal" THEN WholeEqual(c, op)
                 ELSE IF br = "delete" THEN DeleteRows(c, op)
                 ELSE IF br = "insert" THEN InsertRows(c, op)
                 ELSE ReplaceRows(c, op))

\* FinalDiffLines without the filter: the placeholder rows stay.
FinalDiffLinesUnfiltered(view_diff_lines) ==
    IF view_diff_lines = <<>>
       \/ \A n \in 1..Len(view_diff_lines) : HasSep(view_diff_lines[n].cls)
    THEN <<IdenticalRow>>
    ELSE view_diff_lines

\* Lines 601-604.
FinalDiffLines(view_diff_lines) ==
    LET final_diff_lines ==
            SelectSeq(view_diff_lines, LAMBDA line : ~HasPlaceholder(line.cls) \/ HasSep(line.cls))
    IN IF final_diff_lines = <<>>
          \/ \A n \in 1..Len(final_diff_lines) : HasSep(final_diff_lines[n].cls)
       THEN <<IdenticalRow>>
       ELSE final_diff_lines

\* Line 402: the value returned when both processed lists are empty.
EarlyReturn == <<(<<>>), (<<>>), (<<>>), ZeroStats>>

\* The loop of lines 425-599 from opcode number n on, as one computation:
\* st holds the lists, the stats and last_proc_a_idx.
RECURSIVE RunLoop(_, _, _, _, _, _, _, _)
RunLoop(opcodes, n, st, lines_a, lines_b, orig_indices_a, orig_indices_b, options) ==
    IF n > Len(opcodes) \/ st.raised THEN st
    ELSE LET op == opcodes[n]
             e == OpcodeRows(op, st.view_a_lines, st.last_proc_a_idx, lines_a, lines_b,
                             orig_indices_a, orig_indices_b, options)
         IN RunLoop(opcodes, n + 1,
                    [view_a_lines |-> st.view_a_lines \o e.a,
                     view_b_lines |-> st.view_b_lines \o e.b,
                     view_diff_lines |-> st.view_diff_lines \o e.d,
                     minimap_lines |-> st.minimap_lines \o e.m,
                     diff_stats |-> AddStats(st.diff_stats, StatsDelta(op, options)),
                     last_proc_a_idx |-> op.i2,
                     raised |-> e.raised],
                    lines_a, lines_b, orig_indices_a, orig_indices_b, options)

\* generate_ultimate_diff_views(_lines_a_orig, _lines_b_orig, options, ...):
\* [raised, value]; value is the tuple returned.
generate_ultimate_diff_views(lines_a_orig, lines_b_orig, options) ==
    LET pa == preprocess_lines(lines_a_orig, options)
        pb == preprocess_lines(lines_b_orig, options)
        st == RunLoop(get_opcodes(pa.processed, pb.processed), 1,
                      [view_a_lines |-> <<>>, view_b_lines |-> <<>>, view_diff_lines |-> <<>>,
                       minimap_lines |-> <<>>, diff_stats |-> ZeroStats,
                       last_proc_a_idx |-> 0, raised |-> FALSE],
                      lines_a_orig, lines_b_orig,
                      pa.original_indices, pb.original_indices, options)
    IN IF pa.status = "raised" \/ pb.status = "raised" THEN [raised |-> TRUE, value |-> <<>>]
       ELSE IF pa.processed = <<>> /\ pb.processed = <<>>
            THEN [raised |-> FALSE, value |-> EarlyReturn]
       ELSE IF st.raised THEN [raised |-> TRUE, value |-> <<>>]
       ELSE [raised |-> FALSE,
             value |-> <<st.view_a_lines, FinalDiffLines(st.view_diff_lines),
                         st.view_b_lines, st.diff_stats, st.minimap_lines>>]

\* ----------------------------------------------------- generate_patch_file
\* difflib.unified_diff builds its own SequenceMatcher(None, a, b); its
\* automatic junk heuristic only acts on sequences of 200 elements or more, so
\* for shorter inputs the opcodes are those of get_opcodes.

RECURSIVE GroupsFrom(_, _, _, _)
\* The loop of get_grouped_opcodes over codes[k..], group being the group
\* under construction: the groups it yields.
GroupsFrom(codes, k, group, n) ==
    IF k > Len(codes)
    THEN (IF group # <<>> /\ ~(Len(group) = 1 /\ group[1].tag = "equal")
          THEN <<group>> ELSE <<>>)
    ELSE LET c == codes[k]
         IN IF c.tag = "equal" /\ c.i2 - c.i1 > n + n
            THEN <<Append(group, Opcode(c.tag, c.i1, IF c.i2 < c.i1 + n THEN c.i2 ELSE c.i1 + n,
                                        c.j1, IF c.j2 < c.j1 + n THEN c.j2 ELSE c.j1 + n))>>
                 \o GroupsFrom(codes, k + 1,
                               <<Opcode(c.tag, Max(c.i1, c.i2 - n), c.i2, Max(c.j1, c.j2 - n), c.j2)>>,
                               n)
            ELSE GroupsFrom(codes, k + 1, Append(group, c), n)

\* get_grouped_opcodes: no opcode at all stands for one equal line.
OrOneEqual(codes) == IF codes = <<>> THEN <<Opcode("equal", 0, 1, 0, 1)>> ELSE codes

\* get_grouped_opcodes: a leading equal run keeps its last n lines.
TrimFirst(codes, n) ==
    LET f == codes[1]
    IN IF f.tag = "equal"
       THEN [codes EXCEPT ![1] =
                Opcode(f.tag, Max(f.i1, f.i2 - n), f.i2, Max(f.j1, f.j2 - n), f.j2)]
       ELSE codes

\* get_grouped_opcodes: a trailing equal run keeps its first n lines.
TrimLast(codes, n) ==
    LET l == codes[Len(codes)]
    IN IF l.tag = "equal"
       THEN [codes EXCEPT ![Len(codes)] =
                Opcode(l.tag, l.i1, IF l.i2 < l.i1 + n THEN l.i2 ELSE l.i1 + n,
                       l.j1, IF l.j2 < l.j1 + n THEN l.j2 ELSE l.j1 + n)]
       ELSE codes

\* SequenceMatcher.get_grouped_opcodes(n)
get_grouped_opcodes(a, b, n) ==
    GroupsFrom(TrimLast(TrimFirst(OrOneEqual(get_opcodes(a, b)), n), n), 1, <<>>, n)

\* difflib._format_range_unified(start, stop)
FormatRangeUnified(start, stop) ==
    LET length == stop - start
    IN IF length = 1 THEN <<ToString(start + 1)>>
       ELSE <<ToString(IF length = 0 THEN start ELSE start + 1), ",", ToString(length)>>

Prefixed(prefix, ls) == [n \in 1..Len(ls) |-> <<prefix>> \o ls[n]]

\* The lines unified_diff yields for one opcode of a group.
OpcodePatchLines(a, b, c) ==
    IF c.tag = "equal" THEN Prefixed(" ", Slice(a, c.i1, c.i2))
    ELSE (IF c.tag \in {"replace", "delete"} THEN Prefixed("-", Slice(a, c.i1, c.i2)) ELSE <<>>)
         \o (IF c.tag \in {"replace", "insert"} THEN Prefixed("+", Slice(b, c.j1, c.j2)) ELSE <<>>)

\* The hunk of one group: the @@ line and the group's lines.
GroupPatchLines(a, b, group) ==
    << <<"@@ -">> \o FormatRangeUnified(group[1].i1, group[Len(group)].i2)
       \o <<" +">> \o FormatRangeUnified(group[1].j1, group[Len(group)].j2)
       \o <<" @@", "\n">> >>
    \o Flatten([k \in 1..Len(group) |-> OpcodePatchLines(a, b, group[k])])

\* The context lines of a unified diff (the default of unified_diff).
UnifiedContext == 3

\* What unified_diff yields for the groups: the two header lines before the
\* first hunk, then the hunks.
UnifiedLines(groups, a, b, fromfile, tofile) ==
    (IF groups # <<>>
     THEN << <<"--- ", fromfile, "\n">>, <<"+++ ", tofile, "\n">> >>
     ELSE <<>>)
    \o Flatten([g \in 1..Len(groups) |-> GroupPatchLines(a, b, groups[g])])

\* difflib.unified_diff(a, b, fromfile, tofile)
unified_diff(a, b, fromfile, tofile) ==
    UnifiedLines(get_grouped_opcodes(a, b, UnifiedContext), a, b, fromfile, tofile)

\* Line 692-693: every line gets its newline.
WithNewline(lines) == [n \in 1..Len(lines) |-> lines[n] \o <<"\n">>]

\* generate_patch_file (lines 689-701): the unified diff of the lines joined
\* into one text (a tuple of characters and tokens).
generate_patch_file(lines_a, lines_b, name_a, name_b) ==
    Flatten(unified_diff(WithNewline(lines_a), WithNewline(lines_b), name_a, name_b))

\* ------------------------------------------------ filter_and_render_view
\* The characters of the text of IdenticalRow.
IdenticalChars ==
    <<"<", "i", " ", "s", "t", "y", "l", "e", "=", "'", "c", "o", "l", "o",
       "r", ":", " ", "v", "a", "r", "(", "-", "-", "l", "i", "n", "e", "-",
       "n", "u", "m", "-", "c", "o", "l", "o", "r", ")", ";", "'", ">", "F",
       "i", "l", "e", "s", " ", "a", "r", "e", " ", "i", "d", "e", "n", "t",
       "i", "c", "a", "l", " ", "w", "i", "t", "h", " ", "c", "u", "r", "r",
       "e", "n", "t", " ", "o", "p", "t", "i", "o", "n", "s", ".", "<", "/",
       "i", ">">>

\* The characters of one token of a row's content: an entity and the text of
\* IdenticalRow are several characters, anything else is one.  (The text of
\* separator_tuple is never searched: line 738.)
Chars(tok) ==
    IF tok = "&lt;" THEN <<"&", "l", "t", ";">>
    ELSE IF tok = "&gt;" THEN <<"&", "g", "t", ";">>
    ELSE IF tok = "&amp;" THEN <<"&", "a", "m", "p", ";">>
    ELSE IF tok = IdenticalRow.content[1] THEN IdenticalChars
    ELSE <<tok>>

\* content_html as a string of characters.
ContentChars(content_html) == Flatten([i \in 1..Len(content_html) |-> Chars(content_html[i])])

\* Python's "needle in hay" for strings.
Occurs(needle, hay) ==
    \E i \in 0..(Len(hay) - Len(needle)) : SubSeq(hay, i + 1, i + Len(needle)) = needle

\* The options of the multiselect of line 908.
ChangeTypes == {"Added", "Deleted", "Modified", "Unchanged"}

\* Lines 709-714.
filter_map(f) ==
    IF f = "Added" THEN {"diff-add"}
    ELSE IF f = "Deleted" THEN {"diff-sub"}
    ELSE IF f = "Modified" THEN {"diff-add", "diff-sub"}
    ELSE IF f = "Unchanged" THEN {"diff-equal"}
    ELSE {}

\* Lines 715-725: the classes of the selected filters, every class and
\* "diff-context" when nothing is selected.  filters is the set of the
\* selected options (the code only iterates over the list).
ActiveClasses(filters) ==
    IF filters # {} THEN UNION {filter_map(f) : f \in filters}
    ELSE UNION {filter_map(f) : f \in ChangeTypes} \cup {"diff-context"}

\* Lines 729-742 for one row: whether it is shown.  "cls in line_class" is
\* equality for the classes in use, none being part of another.
ShowLine(row, active_classes, search_lower) ==
    /\ \/ row.cls = "diff-sep"
       \/ row.cls = "diff-context"
       \/ row.cls = "diff-placeholder"
       \/ row.cls \in active_classes
    /\ (~IsNone(search_lower) /\ row.cls # "diff-sep")
          => Occurs(search_lower, Lower(ContentChars(row.content)))

\* Lines 705-745: filtered_tuples.  search_lower (line 706) is the lowered
\* term, None (the empty tuple) for an empty term.
FilteredTuples(view_tuples, filters, search_term) ==
    SelectSeq(view_tuples,
              LAMBDA row : ShowLine(row, ActiveClasses(filters), Lower(search_term)))

\* Lines 751-755 for one row; is_sep is the variable the first loop left.
LineHtml(row, is_sep) ==
    IF is_sep THEN row.content
    ELSE <<"<div class=\"diff-line-wrapper ", row.cls, "\"><span class=\"line-num\">",
           IF IsNone(row.num) THEN NBSP ELSE ToString(Val(row.num)),
           "</span><span class=\"line-content\">">>
         \o row.content \o <<"</span></div>">>

\* Line 758.
NoMatchHtml ==
    <<"<div class='diff-view-container'><i style='padding: 10px; color: var(--line-num-color);'>No differences match filters/search.</i></div>">>

\* Lines 748-760: the HTML of filtered_tuples.
RenderTuples(filtered_tuples, is_sep) ==
    IF filtered_tuples = <<>>
       \/ \A n \in 1..Len(filtered_tuples) : filtered_tuples[n].cls = "diff-sep"
    THEN NoMatchHtml
    ELSE <<"<div class=\"diff-view-container\">">>
         \o Flatten([n \in 1..Len(filtered_tuples) |-> LineHtml(filtered_tuples[n], is_sep)])
         \o <<"</div>">>

\* filter_and_render_view(view_tuples, filters, search_term): the HTML, a
\* tuple of tokens.  The rendering loop reads the is_sep of the last row of
\* view_tuples.
filter_and_render_view(view_tuples, filters, search_term) ==
    RenderTuples(FilteredTuples(view_tuples, filters, search_term),
                 view_tuples # <<>> /\ view_tuples[Len(view_tuples)].cls = "diff-sep")

\* ------------------------------------------------------------------ inputs
\* The lines the inputs are made of: two plain lines and a line that differs
\* from "a" by leading whitespace; for the normalizer also a blank line, a
\* line that differs from "a" by case and a comment line.
PlainLines == {<<"a">>, <<"b">>, <<" ", "a">>}
AllLines == PlainLines \cup {<<" ">>, <<"A">>, <<"#">>}

\* default_options, line 34.
DefaultContext == 3

\* The option settings: the number input keeps its default while "Hide
\* Unchanged Lines" is off (the widget is disabled, line 815).
OptionSettings(whitespace, case, blank, comments, regexes) ==
    {[ignore_whitespace |-> w, ignore_case |-> ic, ignore_blank_lines |-> bl,
      ignore_comments |-> cm, ignore_regex |-> rx, hide_unchanged |-> h, num_context |-> n] :
        w \in whitespace, ic \in case, bl \in blank, cm \in comments, rx \in regexes,
        h \in BOOLEAN, n \in 0..DefaultContext}

ViewSettings(os) ==
    {o \in os : IF o.hide_unchanged THEN o.num_context <= MaxContext
                ELSE o.num_context = DefaultContext}

\* ------------------------------------------------------------------- state
VARIABLES
    pc,               \* where the modelled computation stands
    \* generate_ultimate_diff_views: arguments and locals
    lines_a, lines_b, \* _lines_a_orig, _lines_b_orig (for preprocess_lines: lines_a is lines)
    options,
    processed_a, orig_indices_a, processed_b, orig_indices_b,
    opcodes, op_idx,  \* the opcode list and the number of opcodes processed
    view_a_lines, view_b_lines, view_diff_lines, minimap_lines, diff_stats,
    last_proc_a_idx, last_proc_b_idx,
    ret,              \* the returned tuple
    \* preprocess_lines: locals
    patterns, line_idx, processed, original_indices,
    warnings,         \* the number of st.warning calls
    \* the script: st.session_state, the cache of st.cache_data, the action bar
    session_state,    \* [lines_a, lines_b, options, diff_results]
    cache,            \* the cache entries [key, value]
    runs,             \* script runs started
    last_call,        \* how the last call of generate_ultimate_diff_views ended
    patch, report,    \* the data of the two download buttons, None when disabled
    error,            \* the exception that ended the script run, "" if none
    \* the result display
    filter_changes,   \* st.session_state.filter_changes, the set of the selected types
    search_term,      \* st.session_state.search_term
    filtered_tuples,  \* filtered_tuples of the last call of filter_and_render_view
    html_a_filtered, html_diff_filtered, html_b_filtered  \* None before they are computed

args == <<lines_a, lines_b, options>>
pre == <<processed_a, orig_indices_a, processed_b, orig_indices_b, opcodes>>
lists == <<view_a_lines, view_b_lines, view_diff_lines, minimap_lines, diff_stats>>
generate == <<pre, op_idx, lists, last_proc_a_idx, last_proc_b_idx, ret>>
normalizer == <<patterns, line_idx, processed, original_indices, warnings>>
script == <<session_state, cache, runs, last_call, patch, report, error>>
widgets == <<filter_changes, search_term>>
rendered == <<filtered_tuples, html_a_filtered, html_diff_filtered, html_b_filtered>>
display == <<widgets, rendered>>
vars == <<pc, args, generate, normalizer, script, display>>

DefaultOptions ==
    [ignore_whitespace |-> TRUE, ignore_case |-> FALSE, ignore_blank_lines |-> FALSE,
     ignore_comments |-> FALSE, ignore_regex |-> <<>>, hide_unchanged |-> FALSE,
     num_context |-> DefaultContext]

\* The locals of generate_ultimate_diff_views before its first statement.
GenerateAtEntry ==
    /\ processed_a = <<>> /\ orig_indices_a = <<>>
    /\ processed_b = <<>> /\ orig_indices_b = <<>>
    /\ opcodes = <<>> /\ op_idx = 0
    /\ view_a_lines = <<>> /\ view_b_lines = <<>> /\ view_diff_lines = <<>>
    /\ minimap_lines = <<>> /\ diff_stats = ZeroStats
    /\ last_proc_a_idx = 0 /\ last_proc_b_idx = 0
    /\ ret = <<>>

\* The locals of preprocess_lines before its first statement.
NormalizerAtEntry ==
    /\ patterns = <<>> /\ line_idx = 0
    /\ processed = <<>> /\ original_indices = <<>>
    /\ warnings = 0

\* Lines 37-64: the session state of a new session; nothing cached.
NewSession ==
    /\ session_state = [lines_a |-> None, lines_b |-> None, options |-> DefaultOptions,
                        diff_results |-> None]
    /\ cache = {}
    /\ runs = 0
    /\ last_call = "none"
    /\ patch = None /\ report = None
    /\ error = ""
    /\ filter_changes = {} /\ search_term = <<>>
    /\ filtered_tuples = <<>>
    /\ html_a_filtered = None /\ html_diff_filtered = None /\ html_b_filtered = None

\* ------------------------------------ the comparison, one statement group
\* ------------------------------------ at a time (specification Spec)
\* The inputs of the comparison runs.
CompareLines == SeqsUpTo(PlainLines, MaxLen)
CompareOptions ==
    ViewSettings(OptionSettings({TRUE}, {FALSE}, {FALSE}, {FALSE}, {<<>>, <<"^a">>})
                 \cup OptionSettings({FALSE}, {FALSE}, {FALSE}, {FALSE}, {<<>>}))

Init ==
    /\ pc = "start"
    /\ lines_a \in CompareLines
    /\ lines_b \in CompareLines
    /\ options \in CompareOptions
    /\ GenerateAtEntry
    /\ NormalizerAtEntry
    /\ NewSession

\* Lines 398-416: preprocessing, the early return, the opcode list.
Preprocess ==
    /\ pc = "start"
    /\ LET pa == preprocess_lines(lines_a, options)
           pb == preprocess_lines(lines_b, options)
       IN /\ processed_a' = pa.processed /\ orig_indices_a' = pa.original_indices
          /\ processed_b' = pb.processed /\ orig_indices_b' = pb.original_indices
          /\ IF pa.status = "raised" \/ pb.status = "raised"
             THEN pc' = "raised" /\ UNCHANGED <<opcodes, ret>>
             ELSE IF pa.processed = <<>> /\ pb.processed = <<>>
             THEN pc' = "returned" /\ ret' = EarlyReturn /\ UNCHANGED opcodes
             ELSE /\ pc' = "loop"
                  /\ opcodes' = get_opcodes(pa.processed, pb.processed)
                  /\ UNCHANGED ret
    /\ UNCHANGED <<display, args, op_idx, lists, last_proc_a_idx, last_proc_b_idx, normalizer, script>>

\* Iterate without the assignment of lines 598-599: last_proc_a_idx and
\* last_proc_b_idx keep their values.
IterateKeepsBoundary ==
    LET op == opcodes[op_idx + 1]
        e == OpcodeRows(op, view_a_lines, last_proc_a_idx, lines_a, lines_b,
                        orig_indices_a, orig_indices_b, options)
    IN /\ pc' = IF e.raised THEN "raised" ELSE "loop"
       /\ view_a_lines' = view_a_lines \o e.a
       /\ view_b_lines' = view_b_lines \o e.b
       /\ view_diff_lines' = view_diff_lines \o e.d
       /\ minimap_lines' = minimap_lines \o e.m
       /\ diff_stats' = AddStats(diff_stats, StatsDelta(op, options))
       /\ op_idx' = op_idx + 1
       /\ UNCHANGED <<display, args, pre, ret, normalizer, script,
                      last_proc_a_idx, last_proc_b_idx>>

\* One iteration of the loop of lines 425-599, for the next opcode.
Iterate ==
    LET op == opcodes[op_idx + 1]
        e == OpcodeRows(op, view_a_lines, last_proc_a_idx, lines_a, lines_b,
                        orig_indices_a, orig_indices_b, options)
    IN /\ pc' = IF e.raised THEN "raised" ELSE "loop"
       /\ view_a_lines' = view_a_lines \o e.a
       /\ view_b_lines' = view_b_lines \o e.b
       /\ view_diff_lines' = view_diff_lines \o e.d
       /\ minimap_lines' = minimap_lines \o e.m
       /\ diff_stats' = AddStats(diff_stats, StatsDelta(op, options))
       /\ last_proc_a_idx' = op.i2
       /\ last_proc_b_idx' = op.j2
       /\ op_idx' = op_idx + 1
       /\ UNCHANGED <<display, args, pre, ret, normalizer, script>>

\* The loop has an opcode left and it takes branch br.
AtBranch(br) ==
    /\ pc = "loop"
    /\ op_idx < Len(opcodes)
    /\ Branch(opcodes[op_idx + 1], options) = br

\* Lines 442-471.
CollapsedEqualRun ==
    /\ AtBranch("collapsed")
    /\ Iterate

\* Lines 472-484.
ShortEqualRun ==
    /\ AtBranch("short")
    /\ Iterate

\* Lines 522-535.
EqualRun ==
    /\ AtBranch("equal")
    /\ Iterate

\* Lines 489-519 and 537-547.
DeleteRun ==
    /\ AtBranch("delete")
    /\ Iterate

\* Lines 489-519 and 549-559.
InsertRun ==
    /\ AtBranch("insert")
    /\ Iterate

\* Lines 489-519 and 561-596.
ReplaceRun ==
    /\ AtBranch("replace")
    /\ Iterate

\* Lines 601-606.
Return ==
    /\ pc = "loop"
    /\ op_idx = Len(opcodes)
    /\ pc' = "returned"
    /\ ret' = <<view_a_lines, FinalDiffLines(view_diff_lines), view_b_lines,
                diff_stats, minimap_lines>>
    /\ UNCHANGED <<display, args, pre, op_idx, lists, last_proc_a_idx, last_proc_b_idx,
                   normalizer, script>>

Next ==
    \/ Preprocess
    \/ CollapsedEqualRun
    \/ ShortEqualRun
    \/ EqualRun
    \/ DeleteRun
    \/ InsertRun
    \/ ReplaceRun
    \/ Return

Spec == Init /\ [][Next]_vars

\* --------------------------------- preprocess_lines, one statement group
\* --------------------------------- at a time (specification PreSpec)
\* Longest input of the normalizer.
MaxPreLen == 3

NormalizerLines == SeqsUpTo(AllLines, MaxPreLen)
NormalizerOptions ==
    {o \in OptionSettings(BOOLEAN, BOOLEAN, BOOLEAN, BOOLEAN,
                          {<<>>, <<"^a">>, <<"^a", "[">>, <<DeepPattern>>}) :
        ~o.hide_unchanged /\ o.num_context = DefaultContext}

PreInit ==
    /\ pc = "pre_start"
    /\ lines_a \in NormalizerLines
    /\ lines_b = <<>>
    /\ options \in NormalizerOptions
    /\ GenerateAtEntry
    /\ NormalizerAtEntry
    /\ NewSession

\* Lines 291-308: the pattern lists.
CompileRegex ==
    /\ pc = "pre_start"
    /\ LET c == CompilePatterns(options.ignore_regex)
       IN /\ patterns' = c.patterns
          /\ warnings' = IF c.status = "warned" THEN warnings + 1 ELSE warnings
          /\ pc' = IF c.status = "raised" THEN "raised" ELSE "pre_loop"
    /\ UNCHANGED <<display, args, generate, line_idx, processed, original_indices, script>>

AtLine ==
    /\ pc = "pre_loop"
    /\ line_idx < Len(lines_a)

CurrentLine == lines_a[line_idx + 1]

SkipLine ==
    /\ line_idx' = line_idx + 1
    /\ UNCHANGED <<pc, display, args, generate, patterns, processed, original_indices, warnings, script>>

\* Lines 313-319.
SkipIgnored ==
    /\ AtLine
    /\ \E i \in 1..Len(patterns) : PatternSearch(patterns[i], CurrentLine)
    /\ SkipLine

\* Lines 322-329.
SkipComment ==
    /\ AtLine
    /\ ~\E i \in 1..Len(patterns) : PatternSearch(patterns[i], CurrentLine)
    /\ options.ignore_comments /\ IsCommentLine(CurrentLine)
    /\ SkipLine

\* Lines 332-333.
SkipBlank ==
    /\ AtLine
    /\ ~\E i \in 1..Len(patterns) : PatternSearch(patterns[i], CurrentLine)
    /\ ~(options.ignore_comments /\ IsCommentLine(CurrentLine))
    /\ options.ignore_blank_lines /\ Strip(CurrentLine) = <<>>
    /\ SkipLine

\* Lines 334-341.
KeepLine ==
    /\ AtLine
    /\ ~Excluded(CurrentLine, patterns, options)
    /\ processed' = Append(processed, Transform(CurrentLine, options))
    /\ original_indices' = Append(original_indices, line_idx)
    /\ line_idx' = line_idx + 1
    /\ UNCHANGED <<pc, display, args, generate, patterns, warnings, script>>

\* Line 343.
PreReturn ==
    /\ pc = "pre_loop"
    /\ line_idx = Len(lines_a)
    /\ pc' = "pre_returned"
    /\ UNCHANGED <<display, args, generate, normalizer, script>>

PreNext ==
    \/ CompileRegex
    \/ SkipIgnored
    \/ SkipComment
    \/ SkipBlank
    \/ KeepLine
    \/ PreReturn

PreSpec == PreInit /\ [][PreNext]_vars

\* ------------------------------- the script, run after run (specification
\* ------------------------------- AppSpec)
\* Script runs in a session.
MaxRuns == 4

\* What an input of the sidebar can hold: None while nothing is loaded, else
\* the list of lines (an uploaded empty file gives the empty list).
InputChoices == {None, Some(<<>>), Some(<< <<"a">> >>), Some(<< <<"b">> >>)}
OptionChoices ==
    {DefaultOptions,
     [DefaultOptions EXCEPT !.ignore_regex = <<"^a">>],
     [DefaultOptions EXCEPT !.ignore_regex = <<DeepPattern>>]}

\* file_a_name and file_b_name: the display names stay the same over the
\* runs modelled (pasted text always carries these two, line 787; a file
\* uploaded again under its name keeps its name too).
file_a_name == "Pasted Text A"
file_b_name == "Pasted Text B"

\* The key st.cache_data computes for a call (lines 386-387): it hashes the
\* arguments except those whose parameter name starts with an underscore,
\* here _lines_a_orig and _lines_b_orig.
CacheKey(lines_a_orig, lines_b_orig, opts, name_a, name_b) ==
    [options |-> opts, file_a_name |-> name_a, file_b_name |-> name_b]

\* What generate_html_report is given (lines 849-852).
ReportOf(results, opts) ==
    [view_a |-> results[1], view_diff |-> results[2], view_b |-> results[3],
     stats |-> results[4], options |-> opts]

AppInit ==
    /\ pc = "idle"
    /\ lines_a = <<>> /\ lines_b = <<>> /\ options = DefaultOptions
    /\ GenerateAtEntry
    /\ NormalizerAtEntry
    /\ NewSession

can_compare == ~IsNone(session_state.lines_a) /\ ~IsNone(session_state.lines_b)
report_ready == ~IsNone(session_state.diff_results)
CurrentKey ==
    CacheKey(Val(session_state.lines_a), Val(session_state.lines_b), session_state.options,
             file_a_name, file_b_name)
CurrentCall ==
    generate_ultimate_diff_views(Val(session_state.lines_a), Val(session_state.lines_b),
                                 session_state.options)

\* A widget changes (at most one of the two inputs and the options; any other
\* widget leaves all three) and the script runs again: lines 764-822.
Sidebar ==
    /\ pc = "idle"
    /\ runs < MaxRuns
    /\ \E la \in InputChoices, lb \in InputChoices, o \in OptionChoices :
          /\ Cardinality({x \in {<<1, la = session_state.lines_a>>,
                                  <<2, lb = session_state.lines_b>>,
                                  <<3, o = session_state.options>>} : ~x[2]}) <= 1
          /\ session_state' = [session_state EXCEPT !.lines_a = la, !.lines_b = lb, !.options = o]
    /\ runs' = runs + 1
    /\ error' = ""
    /\ pc' = "action_bar"
    /\ UNCHANGED <<display, args, generate, normalizer, cache, last_call, patch, report>>

PatchData ==
    IF can_compare
    THEN Some(generate_patch_file(Val(session_state.lines_a), Val(session_state.lines_b),
                                  file_a_name, file_b_name))
    ELSE None

\* Lines 833-861: the two download buttons.
ActionBar ==
    /\ pc = "action_bar"
    /\ report_ready => Len(Val(session_state.diff_results)) = 5
    /\ patch' = PatchData
    /\ report' = IF report_ready
                 THEN Some(ReportOf(Val(session_state.diff_results), session_state.options))
                 ELSE None
    /\ pc' = "compare"
    /\ UNCHANGED <<display, args, generate, normalizer, session_state, cache, runs, last_call, error>>

\* Line 849 when the stored result has not five components: the unpacking
\* raises ValueError and the script run ends there.
ActionBarUnpackFails ==
    /\ pc = "action_bar"
    /\ report_ready /\ Len(Val(session_state.diff_results)) # 5
    /\ patch' = PatchData
    /\ report' = None
    /\ error' = "ValueError"
    /\ pc' = "idle"
    /\ UNCHANGED <<display, args, generate, normalizer, session_state, cache, runs, last_call>>

\* Lines 866, 954-959: an input is missing, nothing is compared.
NoComparison ==
    /\ pc = "compare"
    /\ ~can_compare
    /\ pc' = "idle"
    /\ UNCHANGED <<display, args, generate, normalizer, script>>

\* Lines 875-883, the call answered from the cache.
CompareCached ==
    /\ pc = "compare"
    /\ can_compare
    /\ \E e \in cache :
          /\ e.key = CurrentKey
          /\ session_state' = [session_state EXCEPT !.diff_results = Some(e.value)]
    /\ last_call' = "hit"
    /\ pc' = "display"
    /\ UNCHANGED <<display, args, generate, normalizer, cache, runs, patch, report, error>>

\* Lines 875-883, the function runs and returns; its value is cached.
CompareComputed ==
    /\ pc = "compare"
    /\ can_compare
    /\ ~\E e \in cache : e.key = CurrentKey
    /\ ~CurrentCall.raised
    /\ session_state' = [session_state EXCEPT !.diff_results = Some(CurrentCall.value)]
    /\ cache' = cache \cup {[key |-> CurrentKey, value |-> CurrentCall.value]}
    /\ last_call' = "miss"
    /\ pc' = "display"
    /\ UNCHANGED <<display, args, generate, normalizer, runs, patch, report, error>>

\* Lines 884-887, the function raises.
CompareRaised ==
    /\ pc = "compare"
    /\ can_compare
    /\ ~\E e \in cache : e.key = CurrentKey
    /\ CurrentCall.raised
    /\ session_state' = [session_state EXCEPT !.diff_results = None]
    /\ last_call' = "raised"
    /\ pc' = "display"
    /\ UNCHANGED <<display, args, generate, normalizer, cache, runs, patch, report, error>>

\* Lines 890-948: the tuple is unpacked and shown.
ShowResults ==
    /\ pc = "display"
    /\ session_state.diff_results # None
    /\ Len(Val(session_state.diff_results)) = 5
    /\ html_a_filtered' = Some(filter_and_render_view(Val(session_state.diff_results)[1],
                                                      filter_changes, search_term))
    /\ html_diff_filtered' = Some(filter_and_render_view(Val(session_state.diff_results)[2],
                                                         filter_changes, search_term))
    /\ html_b_filtered' = Some(filter_and_render_view(Val(session_state.diff_results)[3],
                                                      filter_changes, search_term))
    /\ filtered_tuples' = FilteredTuples(Val(session_state.diff_results)[3],
                                         filter_changes, search_term)
    /\ pc' = "idle"
    /\ UNCHANGED <<widgets, args, generate, normalizer, script>>

\* Line 891 when the result has not five components: ValueError.
ShowUnpackFails ==
    /\ pc = "display"
    /\ session_state.diff_results # None
    /\ Len(Val(session_state.diff_results)) # 5
    /\ error' = "ValueError"
    /\ pc' = "idle"
    /\ UNCHANGED <<display, args, generate, normalizer, session_state, cache, runs, last_call,
                   patch, report>>

\* Lines 951-952.
ShowFailure ==
    /\ pc = "display"
    /\ session_state.diff_results = None
    /\ pc' = "idle"
    /\ UNCHANGED <<display, args, generate, normalizer, script>>

AppNext ==
    \/ Sidebar
    \/ ActionBar
    \/ ActionBarUnpackFails
    \/ NoComparison
    \/ CompareCached
    \/ CompareComputed
    \/ CompareRaised
    \/ ShowResults
    \/ ShowUnpackFails
    \/ ShowFailure

AppSpec == AppInit /\ [][AppNext]_vars

\* ---------------------------- the result display, one statement at a time
\* ---------------------------- (specification ViewSpec)
\* Longest input of the displayed comparisons.
MaxViewLen == 2

\* The inputs: a plain line and a line html.escape changes; whitespace is not
\* ignored, lines are hidden with context 0 or 1 or not at all.
ViewLines == {<<"a">>, <<"<">>}
ViewInputs == SeqsUpTo(ViewLines, MaxViewLen)
ViewOptions ==
    {o \in OptionSettings({FALSE}, {FALSE}, {FALSE}, {FALSE}, {<<>>}) :
        IF o.hide_unchanged THEN o.num_context \in {0, 1}
        ELSE o.num_context = DefaultContext}

\* What the user selects and types: no filter, each single type, two types;
\* no search term, a term in another case than the line, a term that is part
\* of an entity, a term html.escape replaces.
FilterChoices == {{}} \cup {{f} : f \in ChangeTypes} \cup {{"Added", "Deleted"}}
SearchTerms == {<<>>, <<"A">>, <<"l", "t">>, <<"<">>}

ViewInit ==
    /\ pc = "start"
    /\ lines_a \in ViewInputs
    /\ lines_b \in ViewInputs
    /\ options \in ViewOptions
    /\ GenerateAtEntry
    /\ NormalizerAtEntry
    /\ NewSession

\* Lines 890-891 and 906-921: the result unpacks into five components and the
\* two widgets return what the user selected and typed.
FilterAndSearch ==
    /\ pc = "returned"
    /\ Len(ret) = 5
    /\ filter_changes' \in FilterChoices
    /\ search_term' \in SearchTerms
    /\ pc' = "filtered"
    /\ UNCHANGED <<args, generate, normalizer, script, rendered>>

\* Line 927.
RenderViewA ==
    /\ pc = "filtered"
    /\ filtered_tuples' = FilteredTuples(ret[1], filter_changes, search_term)
    /\ html_a_filtered' = Some(filter_and_render_view(ret[1], filter_changes, search_term))
    /\ pc' = "rendered_a"
    /\ UNCHANGED <<args, generate, normalizer, script, widgets,
                   html_diff_filtered, html_b_filtered>>

\* Line 928.
RenderDiffView ==
    /\ pc = "rendered_a"
    /\ filtered_tuples' = FilteredTuples(ret[2], filter_changes, search_term)
    /\ html_diff_filtered' = Some(filter_and_render_view(ret[2], filter_changes, search_term))
    /\ pc' = "rendered_diff"
    /\ UNCHANGED <<args, generate, normalizer, script, widgets,
                   html_a_filtered, html_b_filtered>>

\* Line 929.
RenderViewB ==
    /\ pc = "rendered_diff"
    /\ filtered_tuples' = FilteredTuples(ret[3], filter_changes, search_term)
    /\ html_b_filtered' = Some(filter_and_render_view(ret[3], filter_changes, search_term))
    /\ pc' = "rendered"
    /\ UNCHANGED <<args, generate, normalizer, script, widgets,
                   html_a_filtered, html_diff_filtered>>

ViewNext ==
    \/ Preprocess
    \/ CollapsedEqualRun
    \/ ShortEqualRun
    \/ EqualRun
    \/ DeleteRun
    \/ InsertRun
    \/ ReplaceRun
    \/ Return
    \/ FilterAndSearch
    \/ RenderViewA
    \/ RenderDiffView
    \/ RenderViewB

ViewSpec == ViewInit /\ [][ViewNext]_vars

\* ------------------------------------------------------------ properties
\* The original indices normalization kept.
Kept(orig_indices) == {orig_indices[p] : p \in 1..Len(orig_indices)}

\* The rows of a view that carry a line number, in emission order.
NumberedRows(view) == SelectSeq(view, LAMBDA r : ~IsNone(r.num))
LineNumbers(view) == [n \in 1..Len(NumberedRows(view)) |-> Val(NumberedRows(view)[n].num)]
NumberAndContent(view) ==
    [n \in 1..Len(NumberedRows(view)) |->
        <<Val(NumberedRows(view)[n].num), NumberedRows(view)[n].content>>]

\* Line number and content a row for normalized position p must carry.
ShownAs(lines, orig_indices, p) ==
    <<orig_indices[p] + 1,
      format_html_line_tuple(None, highlight_syntax(lines[orig_indices[p] + 1]), "").content>>

StrictlyIncreasing(s) == \A n \in 1..(Len(s) - 1) : s[n] < s[n + 1]
PairwiseDistinct(s) == \A m, n \in 1..Len(s) : m # n => s[m] # s[n]

ReturnedViews == pc = "returned" /\ Len(ret) = 5

\* C1: a line that normalization excluded appears in no row of view A, of
\* view B or of the diff view that generate_ultimate_diff_views returns: every
\* numbered row shows a line that normalization kept.
ExcludedLinesNeverShown ==
    ReturnedViews =>
        /\ \A n \in 1..Len(ret[1]) :
              ~IsNone(ret[1][n].num) => (Val(ret[1][n].num) - 1) \in Kept(orig_indices_a)
        /\ \A n \in 1..Len(ret[3]) :
              ~IsNone(ret[3][n].num) => (Val(ret[3][n].num) - 1) \in Kept(orig_indices_b)
        /\ \A n \in 1..Len(ret[2]) :
              ~IsNone(ret[2][n].num) =>
                  (Val(ret[2][n].num) - 1) \in
                      (IF ret[2][n].cls = "diff-sub" THEN Kept(orig_indices_a)
                       ELSE Kept(orig_indices_b))

\* C3: every numbered row of view A carries, for some normalized position p
\* of A, the line number index_map_a[p] + 1 and the content of that original
\* line (likewise view B); with hide_unchanged off the numbered rows of a view
\* are exactly one such row per normalized position, in order.
RowsFollowIndexMap ==
    ReturnedViews =>
        /\ \A n \in 1..Len(NumberAndContent(ret[1])) :
              NumberAndContent(ret[1])[n] \in
                  {ShownAs(lines_a, orig_indices_a, p) : p \in 1..Len(orig_indices_a)}
        /\ \A n \in 1..Len(NumberAndContent(ret[3])) :
              NumberAndContent(ret[3])[n] \in
                  {ShownAs(lines_b, orig_indices_b, p) : p \in 1..Len(orig_indices_b)}
        /\ ~options.hide_unchanged =>
              /\ NumberAndContent(ret[1]) =
                     [p \in 1..Len(orig_indices_a) |-> ShownAs(lines_a, orig_indices_a, p)]
              /\ NumberAndContent(ret[3]) =
                     [p \in 1..Len(orig_indices_b) |-> ShownAs(lines_b, orig_indices_b, p)]

\* C6: comparing a line sequence with itself under the default options
\* returns added = deleted = modified = 0, unchanged = len(L) and a diff view
\* that is the single "files are identical" row, the empty sequence included;
\* and whenever the diff view without its placeholders is empty or holds only
\* separators, the returned diff view is that single row.
IdentityRoundTrip ==
    pc = "returned" =>
        /\ (options = DefaultOptions /\ lines_a = lines_b) =>
              /\ ret[4] = [added |-> 0, deleted |-> 0, modified |-> 0,
                           unchanged |-> Len(lines_a)]
              /\ ret[2] = <<IdenticalRow>>
        /\ (\A n \in 1..Len(view_diff_lines) :
                HasPlaceholder(view_diff_lines[n].cls) \/ HasSep(view_diff_lines[n].cls))
              => ret[2] = <<IdenticalRow>>

RECURSIVE ReplacedOfA(_)
\* The lines of A that the replace opcodes consume.
ReplacedOfA(codes) ==
    IF codes = <<>> THEN 0
    ELSE (IF Head(codes).tag = "replace" THEN Head(codes).i2 - Head(codes).i1 ELSE 0)
         + ReplacedOfA(Tail(codes))

\* C7: under every option setting the returned stats satisfy unchanged +
\* deleted + (lines of A consumed by replace) = len(normalized_a), and they
\* equal the stats the same inputs get with hide_unchanged off.
StatsConsistent ==
    pc = "returned" =>
        /\ ret[4].unchanged + ret[4].deleted + ReplacedOfA(opcodes) = Len(processed_a)
        /\ ret[4] = generate_ultimate_diff_views(
                        lines_a, lines_b, [options EXCEPT !.hide_unchanged = FALSE]).value[4]

\* C9: at every point of the loop and at the return, the line numbers of
\* view A are pairwise distinct and strictly increasing in emission order,
\* and so are those of view B.
LineNumbersIncrease ==
    /\ StrictlyIncreasing(LineNumbers(view_a_lines))
    /\ PairwiseDistinct(LineNumbers(view_a_lines))
    /\ StrictlyIncreasing(LineNumbers(view_b_lines))
    /\ PairwiseDistinct(LineNumbers(view_b_lines))

\* A comparison has returned with hide_unchanged on, lines excluded from A,
\* and several numbered rows in each of view A and view B.
NumberedRowsWithExcludedLines ==
    /\ ReturnedViews
    /\ options.hide_unchanged
    /\ Len(orig_indices_a) < Len(lines_a)
    /\ Len(LineNumbers(ret[1])) >= 2
    /\ Len(LineNumbers(ret[3])) >= 2

\* C5: when ignore_regex lists several patterns and one of them is malformed
\* (re.error), preprocess_lines raises nothing, warns, and still excludes
\* every line that a remaining valid pattern matches.
ValidPatternsStillApplied ==
    LET texts == PatternLines(options.ignore_regex)
    IN (/\ Len(texts) > 1
        /\ \E i \in 1..Len(texts) : CompileOutcome(texts[i]) = "re.error"
        /\ \A i \in 1..Len(texts) : CompileOutcome(texts[i]) # "RecursionError")
       => /\ pc # "raised"
          /\ pc \in {"pre_loop", "pre_returned"} => warnings >= 1
          /\ pc = "pre_returned" =>
                \A k \in 1..Len(lines_a) :
                    (\E i \in 1..Len(texts) :
                        CompileOutcome(texts[i]) = "ok" /\ PatternSearch(texts[i], lines_a[k]))
                    => (k - 1) \notin Kept(original_indices)

\* C2: after every comparison run, the result published in the session
\* equals a fresh computation on that run's lines and options, whether or not
\* the call was answered from the cache.
PublishedResultIsFresh ==
    (pc = "display" /\ last_call \in {"hit", "miss"}) =>
        session_state.diff_results = Some(CurrentCall.value)

\* Both inputs are loaded and normalization leaves no line of either.
Degenerate ==
    /\ can_compare
    /\ preprocess_lines(Val(session_state.lines_a), session_state.options).status # "raised"
    /\ preprocess_lines(Val(session_state.lines_a), session_state.options).processed = <<>>
    /\ preprocess_lines(Val(session_state.lines_b), session_state.options).processed = <<>>

\* C4: when both inputs are empty or fully excluded, the computed result has
\* all five components, with empty views and all-zero stats, and the script
\* that unpacks it raises nothing.
DegenerateInputIsNoError ==
    Degenerate =>
        /\ (pc = "display" /\ last_call = "miss") =>
              /\ session_state.diff_results # None
              /\ Len(Val(session_state.diff_results)) = 5
              /\ \A n \in {1, 2, 3} : Val(session_state.diff_results)[n] = <<>>
              /\ Val(session_state.diff_results)[4] = ZeroStats
        /\ error # "ValueError"

\* C8: a comparison run that fails with an exception while the session holds
\* the result of an earlier run leaves that result in diff_results.
FailedRunKeepsPriorResult ==
    [][(CompareRaised /\ session_state.diff_results # None)
          => session_state'.diff_results = session_state.diff_results]_vars

\* C10: the patch text generate_patch_file returns for the download button
\* is never empty, identical inputs included.
PatchNeverEmpty == ~IsNone(patch) => Val(patch) # <<>>

\* The content a row shows for an original line.
Rendering(line) == format_html_line_tuple(None, highlight_syntax(line), "").content

\* What a step appends to a list.
Appended(old, new) == SubSeq(new, Len(old) + 1, Len(new))
Extends(old, new) == Len(new) >= Len(old) /\ SubSeq(new, 1, Len(old)) = old

\* The loop is about to process an opcode.
AtOpcode == pc = "loop" /\ op_idx < Len(opcodes)
NoneExcluded == Len(orig_indices_a) = Len(lines_a) /\ Len(orig_indices_b) = Len(lines_b)

\* C13: preprocess_lines returns an index list as long as the processed list,
\* strictly increasing, of valid indices, with processed[k] the transform of
\* lines[original_indices[k]], and an index is present if and only if its line
\* matches no pattern of ignore_regex, is no comment line under
\* ignore_comments and is not blank under ignore_blank_lines.
IndexMapValid ==
    pc = "pre_returned" =>
          /\ Len(original_indices) = Len(processed)
          /\ StrictlyIncreasing(original_indices)
          /\ \A k \in 1..Len(original_indices) :
                /\ original_indices[k] \in 0..(Len(lines_a) - 1)
                /\ processed[k] = Transform(lines_a[original_indices[k] + 1], options)
          /\ \A i \in 0..(Len(lines_a) - 1) :
                i \in Kept(original_indices) <=>
                    /\ ~\E n \in 1..Len(options.ignore_regex) :
                          PatternSearch(options.ignore_regex[n], lines_a[i + 1])
                    /\ ~(options.ignore_comments /\ IsCommentLine(lines_a[i + 1]))
                    /\ ~(options.ignore_blank_lines /\ Strip(lines_a[i + 1]) = <<>>)

\* C16: normalization is idempotent: preprocess_lines applied to its own
\* output with the same options returns that output unchanged.
NormalizationIdempotent ==
    pc = "pre_returned" => preprocess_lines(processed, options).processed = processed

SyntheticRowTellsRawIdentity ==
    (/\ ReturnedViews
     /\ lines_a # lines_b
     /\ Len(ret[2]) = 1 /\ IsNone(ret[2][1].num) /\ ret[2][1].cls = "diff-equal")
    => ret[2][1].content #
           generate_ultimate_diff_views(lines_a, lines_a, options).value[2][1].content

\* The opcode the loop is about to process, and its context rows.
NextOp == opcodes[op_idx + 1]
ContextRowsOf(lines, ks) ==
    [n \in 1..Len(ks) |->
        Row(Some(ks[n] + 1), Rendering(lines[ks[n] + 1]), "diff-context")]
EqualRowsOf(lines, ks) ==
    [n \in 1..Len(ks) |->
        Row(Some(ks[n] + 1), Rendering(lines[ks[n] + 1]), "diff-equal")]
IsDifferenceRow(r) == r.cls \in {"diff-sub", "diff-add", "diff-placeholder"}

\* What views A and B and the minimap must receive for an equal run of n
\* lines under hide_unchanged with context c when no line is excluded.
CollapsedStep ==
    LET n == NextOp.i2 - NextOp.i1
        c == options.num_context
        head_a == ContextRowsOf(lines_a, Range(NextOp.i1, NextOp.i1 + c))
        tail_a == ContextRowsOf(lines_a, Range(NextOp.i2 - c, NextOp.i2))
        head_b == ContextRowsOf(lines_b, Range(NextOp.j1, NextOp.j1 + c))
        tail_b == ContextRowsOf(lines_b, Range(NextOp.j2 - c, NextOp.j2))
    IN IF n > 2 * c
       THEN /\ Appended(view_a_lines, view_a_lines') = head_a \o <<separator_tuple>> \o tail_a
            /\ Appended(view_b_lines, view_b_lines') = head_b \o <<separator_tuple>> \o tail_b
            /\ Appended(minimap_lines, minimap_lines') = [k \in 1..(2 * c) |-> "equal"]
       ELSE /\ Appended(view_a_lines, view_a_lines')
                  = EqualRowsOf(lines_a, Range(NextOp.i1, NextOp.i2))
            /\ Appended(view_b_lines, view_b_lines')
                  = EqualRowsOf(lines_b, Range(NextOp.j1, NextOp.j2))
            /\ Appended(minimap_lines, minimap_lines') = [k \in 1..n |-> "equal"]

ReplaceStep ==
    LET na == NextOp.i2 - NextOp.i1
        nb == NextOp.j2 - NextOp.j1
        m == Max(na, nb)
        rows_a == Appended(view_a_lines, view_a_lines')
        rows_b == Appended(view_b_lines, view_b_lines')
        rows_d == Appended(view_diff_lines, view_diff_lines')
    IN /\ Len(rows_a) = m /\ Len(rows_b) = m /\ Len(rows_d) = m
       /\ \A k \in 1..m :
             /\ IF k <= na
                THEN rows_a[k].cls = "diff-sub" /\ ~IsNone(rows_a[k].num)
                ELSE rows_a[k] = PlaceholderRow
             /\ IF k <= nb
                THEN rows_b[k].cls = "diff-add" /\ ~IsNone(rows_b[k].num)
                ELSE rows_b[k] = PlaceholderRow
             /\ rows_d[k] = IF k <= na THEN rows_a[k] ELSE rows_b[k]
       /\ diff_stats' = [diff_stats EXCEPT !.modified = @ + m]
       /\ Appended(minimap_lines, minimap_lines') = [k \in 1..m |-> "mod"]

\* C18: a replace segment of na lines of A and nb lines of B adds
\* max(na, nb) rows to view A (replaced-old rows for k < na, placeholders
\* after), to view B (replaced-new rows for k < nb, placeholders after) and
\* to the diff view (A's row for k < na, B's row for na <= k < nb), adds
\* max(na, nb) to modified and max(na, nb) "mod" marks to the minimap.
ReplaceAddsMaxRows ==
    [][(AtOpcode /\ NextOp.tag = "replace")
          => /\ Extends(view_a_lines, view_a_lines')
             /\ Extends(view_b_lines, view_b_lines')
             /\ Extends(view_diff_lines, view_diff_lines')
             /\ Extends(minimap_lines, minimap_lines')
             /\ ReplaceStep]_vars

\* A comparison has returned whose only opcode replaces two lines of A by
\* one line of B: two rows on each side, the second of B a placeholder, and
\* modified = 2.
UnevenReplaceReturned ==
    /\ ReturnedViews
    /\ Len(opcodes) = 1
    /\ opcodes[1].tag = "replace"
    /\ opcodes[1].i2 - opcodes[1].i1 = 2
    /\ opcodes[1].j2 - opcodes[1].j1 = 1
    /\ Len(ret[1]) = 2 /\ Len(ret[3]) = 2
    /\ ret[3][2] = PlaceholderRow
    /\ ret[4].modified = 2

\* The number of separator rows among the first n rows, and the minimap
\* mark of the non-separator row n.
SeparatorsUpTo(rows, n) == Cardinality({k \in 1..n : HasSep(rows[k].cls)})
MarkOfRow(n) == minimap_lines[n - SeparatorsUpTo(view_a_lines, n)]

\* C19: after every processed segment views A and B have the same number of
\* rows with separators at the same indices, the minimap holds one mark per
\* non-separator row of view A, every row of a delete segment faces a
\* placeholder in B and every row of an insert segment faces a placeholder
\* in A.
ViewsStayAligned ==
    /\ Len(view_a_lines) = Len(view_b_lines)
    /\ \A n \in 1..Len(view_a_lines) :
          HasSep(view_a_lines[n].cls) <=> HasSep(view_b_lines[n].cls)
    /\ Len(minimap_lines)
          = Len(view_a_lines) - SeparatorsUpTo(view_a_lines, Len(view_a_lines))
    /\ \A n \in 1..Len(view_a_lines) :
          ~HasSep(view_a_lines[n].cls) =>
             /\ MarkOfRow(n) = "sub" =>
                   /\ view_a_lines[n].cls = "diff-sub"
                   /\ view_b_lines[n] = PlaceholderRow
             /\ MarkOfRow(n) = "add" =>
                   /\ view_b_lines[n].cls = "diff-add"
                   /\ view_a_lines[n] = PlaceholderRow

\* The loop has processed a collapsed equal run, a delete segment and an
\* insert segment: the views hold a separator, a delete row and an insert
\* row.
SeparatorDeleteAndInsertEmitted ==
    /\ pc = "loop"
    /\ \E n \in 1..Len(view_a_lines) : HasSep(view_a_lines[n].cls)
    /\ \E n \in 1..Len(minimap_lines) : minimap_lines[n] = "sub"
    /\ \E n \in 1..Len(minimap_lines) : minimap_lines[n] = "add"

\* Every numbered row of a view shows the rendering of the original line of
\* its number.
RowsShowTheirLine(rows, lines) ==
    \A n \in 1..Len(rows) :
        ~IsNone(rows[n].num) =>
            /\ Val(rows[n].num) \in 1..Len(lines)
            /\ rows[n].content = Rendering(lines[Val(rows[n].num)])

\* C20: in every row of view A and of view B that carries a line number n,
\* the content is the rendering of that side's original line n, whatever the
\* inputs and the options, lines excluded by normalization included.
NumberedRowsShowOriginalLine ==
    /\ RowsShowTheirLine(view_a_lines, lines_a)
    /\ RowsShowTheirLine(view_b_lines, lines_b)

\* A comparison of inputs with lines excluded on both sides and text changed
\* by normalization has returned views A and B with at least two numbered
\* rows each.
NumberedRowsOfNormalizedLines ==
    /\ ReturnedViews
    /\ Len(orig_indices_a) < Len(lines_a)
    /\ Len(orig_indices_b) < Len(lines_b)
    /\ \E k \in 1..Len(orig_indices_a) : processed_a[k] # lines_a[orig_indices_a[k] + 1]
    /\ Cardinality({n \in 1..Len(ret[1]) : ~IsNone(ret[1][n].num)}) >= 2
    /\ Cardinality({n \in 1..Len(ret[3]) : ~IsNone(ret[3][n].num)}) >= 2

\* filter_and_render_view kept the row in its last call.
Retained(row) == \E k \in 1..Len(filtered_tuples) : filtered_tuples[k] = row

\* The change type the filter must hold for the numbered row n of view A
\* (of view B) to be kept, by the segment that emitted it: "" for a context
\* row, kept under every filter.
TypeOfRowA(n) ==
    IF view_a_lines[n].cls = "diff-context" THEN ""
    ELSE IF MarkOfRow(n) = "sub" THEN "Deleted"
    ELSE IF MarkOfRow(n) = "mod" THEN "Modified"
    ELSE "Unchanged"
TypeOfRowB(n) ==
    IF view_b_lines[n].cls = "diff-context" THEN ""
    ELSE IF MarkOfRow(n) = "add" THEN "Added"
    ELSE IF MarkOfRow(n) = "mod" THEN "Modified"
    ELSE "Unchanged"

\* C11: with a non-empty type filter and no search term, a row of a delete,
\* insert, replace or equal segment is kept if and only if the type of its
\* segment is selected (Deleted, Added, Modified, Unchanged), and separator
\* and context rows are kept under every filter.
TypeFilterKeepsSelectedRoles ==
    /\ (pc = "rendered_a" /\ filter_changes # {} /\ search_term = <<>>) =>
          \A n \in 1..Len(view_a_lines) :
             /\ HasSep(view_a_lines[n].cls) => Retained(view_a_lines[n])
             /\ ~IsNone(view_a_lines[n].num) =>
                   (Retained(view_a_lines[n])
                       <=> TypeOfRowA(n) \in filter_changes \cup {""})
    /\ (pc = "rendered" /\ filter_changes # {} /\ search_term = <<>>) =>
          \A n \in 1..Len(view_b_lines) :
             /\ HasSep(view_b_lines[n].cls) => Retained(view_b_lines[n])
             /\ ~IsNone(view_b_lines[n].num) =>
                   (Retained(view_b_lines[n])
                       <=> TypeOfRowB(n) \in filter_changes \cup {""})

\* C12: with a non-empty search term, a numbered row is kept if and only if
\* it passes the type filter and the term occurs, whatever the case, in the
\* plain text of its line; separator rows are kept without being tested.
SearchMatchesPlainText ==
    (pc = "rendered_a" /\ search_term # <<>>) =>
        \A n \in 1..Len(view_a_lines) :
           /\ HasSep(view_a_lines[n].cls) => Retained(view_a_lines[n])
           /\ ~IsNone(view_a_lines[n].num) =>
                 (Retained(view_a_lines[n])
                     <=> /\ ShowLine(view_a_lines[n], ActiveClasses(filter_changes), None)
                         /\ Occurs(Lower(search_term),
                                   Lower(lines_a[Val(view_a_lines[n].num)])))

\* Rows n of views A and B show lines that normalization kept and made equal.
SameAfterNormalization(n) ==
    LET ia == Val(view_a_lines[n].num) - 1
        ib == Val(view_b_lines[n].num) - 1
    IN /\ ia \in Kept(orig_indices_a)
       /\ ib \in Kept(orig_indices_b)
       /\ Transform(lines_a[ia + 1], options) = Transform(lines_b[ib + 1], options)

\* C21: in every row that views A and B show side by side as an equal or a
\* context row, the original line of A and the original line of B are both
\* kept by normalization and normalize to the same string under the options.
EqualRowsShowEquivalentLines ==
    \A n \in 1..Len(view_a_lines) :
        view_a_lines[n].cls \in {"diff-equal", "diff-context"} => SameAfterNormalization(n)

\* How many rows of a view satisfy a test on the class; no two neighbouring
\* separator rows.
CountRows(rows, Test(_)) == Cardinality({n \in 1..Len(rows) : Test(rows[n].cls)})
IsContentClass(cls) == ~HasSep(cls)
NoAdjacentSeparators(rows) ==
    \A n \in 1..(Len(rows) - 1) : ~(HasSep(rows[n].cls) /\ HasSep(rows[n + 1].cls))
FoundDifference == \E k \in 1..Len(opcodes) : opcodes[k].tag # "equal"

\* C22: when the comparison finds a difference, the returned diff view has no
\* placeholder row, keeps every separator the loop emitted, has as many
\* non-separator rows as added + deleted + modified, which is the number of
\* non-equal minimap marks, and no view has two neighbouring separators.
DiffViewCountsDifferences ==
    (ReturnedViews /\ FoundDifference) =>
        /\ CountRows(ret[2], HasPlaceholder) = 0
        /\ CountRows(ret[2], HasSep) = CountRows(view_diff_lines, HasSep)
        /\ CountRows(ret[2], IsContentClass)
              = ret[4].added + ret[4].deleted + ret[4].modified
        /\ CountRows(ret[2], IsContentClass)
              = Cardinality({n \in 1..Len(ret[5]) : ret[5][n] # "equal"})
        /\ NoAdjacentSeparators(ret[1])
        /\ NoAdjacentSeparators(ret[2])
        /\ NoAdjacentSeparators(ret[3])

\* A comparison has returned a deleted and an added line around an equal
\* line: the loop had put a placeholder row into the diff view for the equal
\* line, and the returned diff view holds the two difference rows.
DifferencesAroundEqualReturned ==
    /\ ReturnedViews
    /\ CountRows(view_diff_lines, HasPlaceholder) > 0
    /\ ret[4].deleted > 0 /\ ret[4].added > 0
    /\ Len(ret[2]) = 2

\* C23: when the loop starts on an opcode, last_proc_a_idx is the opcode's i1
\* and last_proc_b_idx its j1, so the backfill path emits no row, and a
\* difference opcode emits no context row: the trailing context of a
\* collapsed equal run comes from the equal-run path only.
BackfillNeverFires ==
    AtOpcode =>
        /\ last_proc_a_idx = NextOp.i1
        /\ last_proc_b_idx = NextOp.j1
        /\ Backfill(NextOp, view_a_lines, last_proc_a_idx, lines_a, lines_b,
                    orig_indices_a, orig_indices_b, options) = NothingEmitted
        /\ NextOp.tag # "equal" =>
              \A n \in 1..Len(OpcodeRows(NextOp, view_a_lines, last_proc_a_idx, lines_a,
                                         lines_b, orig_indices_a, orig_indices_b, options).a) :
                  OpcodeRows(NextOp, view_a_lines, last_proc_a_idx, lines_a, lines_b,
                             orig_indices_a, orig_indices_b, options).a[n].cls # "diff-context"

\* With hide_unchanged on and context 1, the loop has processed an equal run
\* and stands before a difference that starts after the first line of A.
DifferenceAfterEqualRun ==
    /\ AtOpcode
    /\ options.hide_unchanged /\ options.num_context = 1
    /\ op_idx >= 1
    /\ opcodes[op_idx].tag = "equal"
    /\ NextOp.tag # "equal"
    /\ NextOp.i1 > options.num_context

\* The HTML of the kept rows when each is rendered by its own class: a
\* separator bare, any other row wrapped with its line number.
RenderedByOwnRole(kept) ==
    <<"<div class=\"diff-view-container\">">>
    \o Flatten([n \in 1..Len(kept) |-> LineHtml(kept[n], HasSep(kept[n].cls))])
    \o <<"</div>">>

\* C24: filter_and_render_view renders every kept row by the row's own role,
\* a non-separator row wrapped with its line number and a separator row bare,
\* whatever the other rows of the view are, a separator as last row included.
RowsRenderedByOwnRole ==
    (/\ pc = "rendered_a"
     /\ \E n \in 1..Len(filtered_tuples) : ~HasSep(filtered_tuples[n].cls))
    => Val(html_a_filtered) = RenderedByOwnRole(filtered_tuples)

\* C25: in every script run, when the action bar offers the HTML report, both
\* inputs are loaded and the report serialises the result of comparing the
\* inputs and options of that run, never the result of an earlier run with
\* other inputs or options.
ReportIsOfCurrentInputs ==
    (pc # "action_bar" /\ ~IsNone(report)) =>
        /\ can_compare
        /\ ~CurrentCall.raised
        /\ Len(CurrentCall.value) = 5
        /\ Val(report) = ReportOf(CurrentCall.value, session_state.options)

====
